---------------------------- MODULE Spec2Model ----------------------------
(***************************************************************************)
(* A model of the batch plant assistant:                                   *)
(*   - batch_plant_functions.py : OPCUABatchPlantClient and the standalone *)
(*     telemetry query cycles get_material_availability/get_machine_states *)
(*   - batch_plant_storage.py   : get_product_details and its caller       *)
(*   - main.py                  : the machine state rendering              *)
(* The asyncua session and the psycopg2 connection are the environment:    *)
(* each of their calls either succeeds or raises, chosen with \E.          *)
(***************************************************************************)
EXTENDS Integers, Sequences, FiniteSets, TLC

(* ------------------------------ bounds -------------------------------- *)

\* standalone query cycles in one behaviour
MaxCycles == 2

\* calls a direct user of OPCUABatchPlantClient makes in one behaviour
MaxCalls == 4

\* get_product_details calls in one behaviour
MaxDbCalls == 2

\* rows a recipe query returns at most
MaxRows == 2

\* raw machine state codes range over -MaxCode .. MaxCode
MaxCode == 12

(* ------------------- batch_plant_functions.py: constants -------------- *)

SERVER_URL == "opc.tcp://desktop-fjjsr46:26543/BatchPlantServer"

TANK1_LEVEL_NODE_ID == "ns=2;i=328"
TANK2_LEVEL_NODE_ID == "ns=2;i=352"
TANK3_LEVEL_NODE_ID == "ns=2;i=376"

MIXER_STATE_NODE_ID == "ns=3;s=MixerState"
REACTOR_STATE_NODE_ID == "ns=3;s=Reactor1State"
FILLER_STATE_NODE_ID == "ns=3;s=Filler1State"

\* Python's None, where a string is expected
None == "None"

\* the order in which a method reads its three nodes
NodeIds(kind) ==
    IF kind = "material"
    THEN <<TANK1_LEVEL_NODE_ID, TANK2_LEVEL_NODE_ID, TANK3_LEVEL_NODE_ID>>
    ELSE <<MIXER_STATE_NODE_ID, REACTOR_STATE_NODE_ID, FILLER_STATE_NODE_ID>>

\* the keys of the result dictionary, in insertion order
ResultKeys(kind) ==
    IF kind = "material"
    THEN <<"tank1_material_level", "tank2_material_level", "tank3_material_level">>
    ELSE <<"mixer_state", "reactor_state", "filler_state">>

(* ------------------------- text and numbers --------------------------- *)

Digit(d) ==
    CASE d = 0 -> "0" [] d = 1 -> "1" [] d = 2 -> "2" [] d = 3 -> "3"
      [] d = 4 -> "4" [] d = 5 -> "5" [] d = 6 -> "6" [] d = 7 -> "7"
      [] d = 8 -> "8" [] d = 9 -> "9"

RECURSIVE FormatNat(_)
FormatNat(n) ==
    IF n < 10 THEN Digit(n) ELSE FormatNat(n \div 10) \o Digit(n % 10)

\* str(n) of a Python int, as an f-string renders it
FormatInt(n) == IF n < 0 THEN "-" \o FormatNat(-n) ELSE FormatNat(n)

\* a raw value an OPC UA node yields: a number, or something float() rejects
NumRaw(v) == [t |-> "num", v |-> v]
TextRaw == [t |-> "text", v |-> 0]

\* float(raw): a float for a number, TypeError/ValueError otherwise
FloatOk(raw) == raw.t = "num"

\* json.dumps of float(raw) for an integral number: "40" becomes "40.0"
DumpFloat(raw) == FormatInt(raw.v) \o ".0"

\* json.dumps of a str
DumpStr(s) == "\"" \o s \o "\""

(* ---------------------- MachineState and decoding --------------------- *)

MachineStateNames ==
    <<"DISABLED", "IDLE", "RUNNING", "STARVED", "BLOCKED",
      "PLANNED_DOWNTIME", "UNPLANNED_DOWNTIME", "OTHER">>

\* MachineState(state_int) finds a member, or raises ValueError
IsMachineState(n) == n \in 0 .. (Len(MachineStateNames) - 1)

\* str.lower() on the member names
Lower(name) ==
    CASE name = "DISABLED" -> "disabled"
      [] name = "IDLE" -> "idle"
      [] name = "RUNNING" -> "running"
      [] name = "STARVED" -> "starved"
      [] name = "BLOCKED" -> "blocked"
      [] name = "PLANNED_DOWNTIME" -> "planned_downtime"
      [] name = "UNPLANNED_DOWNTIME" -> "unplanned_downtime"
      [] name = "OTHER" -> "other"

\* the except ValueError branch
UnknownState(n) == "unknown_state_" \o FormatInt(n)

\* a plausible slip: the fallback drops the raw code
IntToStateStringNoCode(n) ==
    IF IsMachineState(n) THEN Lower(MachineStateNames[n + 1]) ELSE "unknown_state"

int_to_state_string(n) ==
    IF IsMachineState(n) THEN Lower(MachineStateNames[n + 1]) ELSE UnknownState(n)


(* ------------------------------- state -------------------------------- *)

VARIABLES
    \* telemetry: the asyncua Client objects created so far, and the
    \* fields of the current OPCUABatchPlantClient
    sessions, server_url, urlArg, client,
    \* the standalone function in progress
    spc, skind, pending, sretval, sresult, cycles,
    \* the client method in progress
    mpc, mkind, mk, mvals, mresult, readLog,
    \* a direct user of the class
    calls,
    \* batch_plant_storage.get_product_details in progress
    dpc, product, conn, cursor, openConns, openCursors, rows, retval,
    dresult, dfail, dcalls, report,
    \* _int_to_state_string applied to two codes
    codeA, codeB, outA, outB, decoded,
    \* main.py: the response's machine_states and the icons printed
    machine_states, icons, rendered

tvars == <<sessions, server_url, urlArg, client, spc, skind, pending, sretval,
           sresult, cycles, mpc, mkind, mk, mvals, mresult, readLog, calls>>
dvars == <<dpc, product, conn, cursor, openConns, openCursors, rows, retval,
           dresult, dfail, dcalls, report>>
cvars == <<codeA, codeB, outA, outB, decoded>>
rvars == <<machine_states, icons, rendered>>
vars == <<tvars, dvars, cvars, rvars>>

(* ------------------------ exceptions and outcomes --------------------- *)

NoError == [type |-> "none", node |-> ""]
Err(type, node) == [type |-> type, node |-> node]

\* what a client method did: nothing yet, returned a dict, or raised
MNoOutcome == [kind |-> "none", val |-> <<>>, err |-> NoError]
MValue(d) == [kind |-> "value", val |-> d, err |-> NoError]
MRaised(e) == [kind |-> "error", val |-> <<>>, err |-> e]

\* what a standalone function did: nothing yet, returned a str, or raised
SNoOutcome == [kind |-> "none", val |-> "", err |-> NoError]
SValue(s) == [kind |-> "value", val |-> s, err |-> NoError]
SRaised(e) == [kind |-> "error", val |-> "", err |-> e]

(* ------------------------------ json.dumps ---------------------------- *)

\* a dict is a sequence of entries [key, text], text the dumped value
RECURSIVE DumpEntries(_)
DumpEntries(d) ==
    IF Len(d) = 0 THEN ""
    ELSE "\n  " \o DumpStr(d[1].key) \o ": " \o d[1].text
         \o (IF Len(d) = 1 THEN "\n" ELSE ",") \o DumpEntries(Tail(d))

\* json.dumps(result, indent=2) of a flat dict
json_dumps(d) == "{" \o DumpEntries(d) \o "}"

(* ----------------------- OPCUABatchPlantClient ------------------------ *)

\* the values the environment's nodes yield
RawValues(kind) ==
    IF kind = "material" THEN {NumRaw(40), TextRaw}
    ELSE {NumRaw(2), NumRaw(6), NumRaw(9)}

\* __init__(server_url): the argument is kept only for reference
Construct(u) ==
    /\ server_url' = SERVER_URL
    /\ client' = 0
    /\ urlArg' = u

\* a new asyncua Client(url), not yet connected
NewSession(url) ==
    [url |-> url, argUrl |-> urlArg, state |-> "new", opened |-> FALSE,
     connects |-> 0, disconnects |-> 0, cycle |-> cycles, usedIn |-> {}]

\* connect(): self.client = Client(self.server_url); await self.client.connect()
Connect(ok) ==
    /\ sessions' = Append(sessions,
          [NewSession(server_url) EXCEPT
              !.state = IF ok THEN "open" ELSE "new",
              !.opened = ok,
              !.connects = 1,
              !.usedIn = {cycles}])
    /\ client' = Len(sessions) + 1

\* a plausible slip: tear down only a session that is known to be open
ClientGuardOpenOnly(c) == c # 0 /\ sessions[c].state = "open"

\* disconnect(): if self.client
ClientGuard(c) == c # 0

\* disconnect(): the underlying disconnect() tears the session down, raising or not
Disconnect ==
    IF ClientGuard(client)
    THEN sessions' = [sessions EXCEPT
             ![client].state = "closed",
             ![client].disconnects = @ + 1,
             ![client].usedIn = @ \cup {cycles}]
    ELSE UNCHANGED sessions

\* a plausible slip: the handler swallows the error and returns nothing useful
MethodExceptSwallow(e) == MValue(<<>>)

\* except Exception as e: print(...); raise
MethodExcept(e) == MRaised(e)

\* the dict a method builds from the three values it read
BuildResult(kind, vals) ==
    [i \in 1..Len(vals) |->
        [key |-> ResultKeys(kind)[i],
         text |-> IF kind = "material" THEN DumpFloat(vals[i])
                  ELSE DumpStr(int_to_state_string(vals[i].v))]]

\* get_material_availability / get_machine_states: entry, up to the first read
MethodStart(kind) ==
    /\ mpc = "idle"
    /\ \/ spc = "invoke" /\ kind = skind /\ spc' = "await" /\ calls' = calls
       \/ spc = "direct" /\ server_url # None /\ calls < MaxCalls
          /\ spc' = spc /\ calls' = calls + 1
    /\ mkind' = kind
    /\ mvals' = <<>>
    /\ readLog' = <<>>
    /\ mk' = 1
    /\ IF client = 0
       THEN mresult' = MethodExcept(Err("AttributeError", "")) /\ mpc' = "done"
       ELSE mresult' = MNoOutcome /\ mpc' = "read"
    /\ UNCHANGED <<sessions, server_url, urlArg, client, skind, pending,
                   sretval, sresult, cycles>>

\* one await node.read_value()
MethodRead(ok, v) ==
    /\ mpc = "read"
    /\ v \in RawValues(mkind)
    /\ ok => sessions[client].state = "open"
    /\ ~ok => v = NumRaw(40) \/ v = NumRaw(2)
    /\ readLog' = Append(readLog,
          [session |-> client, node |-> NodeIds(mkind)[mk],
           open |-> sessions[client].state = "open", ok |-> ok])
    /\ sessions' = [sessions EXCEPT ![client].usedIn = @ \cup {cycles}]
    /\ IF ok
       THEN /\ mvals' = Append(mvals, v)
            /\ mresult' = mresult
            /\ IF mk < 3 THEN mk' = mk + 1 /\ mpc' = "read"
                         ELSE mk' = mk /\ mpc' = "build"
       ELSE /\ mresult' = MethodExcept(Err("ReadError", NodeIds(mkind)[mk]))
            /\ mpc' = "done"
            /\ UNCHANGED <<mvals, mk>>
    /\ UNCHANGED <<server_url, urlArg, client, spc, skind, pending, sretval,
                   sresult, cycles, mkind, calls>>

\* the result dictionary: float() of each level, or the decoded states
MethodBuild ==
    /\ mpc = "build"
    /\ mpc' = "done"
    /\ IF mkind = "material" /\ \E i \in 1..3 : ~FloatOk(mvals[i])
       THEN mresult' = MethodExcept(Err("TypeError", ""))
       ELSE mresult' = MValue(BuildResult(mkind, mvals))
    /\ UNCHANGED <<sessions, server_url, urlArg, client, spc, skind, pending,
                   sretval, sresult, cycles, mkind, mk, mvals, readLog, calls>>

(* ------------------- the standalone query cycles ---------------------- *)

\* a plausible slip: cleanup only on the success path (no try/finally)
AfterFailureNoFinally == "done"

\* where an exception raised inside the try block continues: the finally block
AfterFailure == "finally"

\* get_material_availability() / get_machine_states(): client = OPCUABatchPlantClient()
SA_Call(kind) ==
    /\ spc \in {"idle", "done"}
    /\ cycles < MaxCycles
    /\ cycles' = cycles + 1
    /\ Construct(None)
    /\ skind' = kind
    /\ spc' = "connect"
    /\ pending' = NoError
    /\ sretval' = ""
    /\ sresult' = SNoOutcome
    /\ mresult' = MNoOutcome
    /\ readLog' = <<>>
    /\ mvals' = <<>>
    /\ UNCHANGED <<sessions, mpc, mkind, mk, calls>>

\* await client.connect()
SA_Connect(ok) ==
    /\ spc = "connect"
    /\ Connect(ok)
    /\ IF ok THEN spc' = "invoke" /\ pending' = pending
             ELSE spc' = AfterFailure /\ pending' = Err("ConnectError", "")
    /\ UNCHANGED <<server_url, urlArg, skind, sretval, sresult, cycles,
                   mpc, mkind, mk, mvals, mresult, readLog, calls>>

\* result = await client.get_...(); return json.dumps(result, indent=2)
SA_Return ==
    /\ spc = "await"
    /\ mpc = "done"
    /\ mpc' = "idle"
    /\ IF mresult.kind = "error"
       THEN spc' = AfterFailure /\ pending' = mresult.err /\ sretval' = sretval
       ELSE spc' = "finally" /\ pending' = pending
            /\ sretval' = json_dumps(mresult.val)
    /\ UNCHANGED <<sessions, server_url, urlArg, client, skind, sresult,
                   cycles, mkind, mk, mvals, mresult, readLog, calls>>

\* finally: await client.disconnect(); an error it raises replaces the outcome
SA_Finally(ok) ==
    /\ spc = "finally"
    /\ ~ClientGuard(client) => ok
    /\ Disconnect
    /\ spc' = "done"
    /\ sresult' = IF ~ok THEN SRaised(Err("DisconnectError", ""))
                  ELSE IF pending # NoError THEN SRaised(pending)
                  ELSE SValue(sretval)
    /\ UNCHANGED <<server_url, urlArg, client, skind, pending, sretval,
                   cycles, mpc, mkind, mk, mvals, mresult, readLog, calls>>

TelemetryIdle ==
    /\ sessions = <<>>
    /\ server_url = None
    /\ urlArg = None
    /\ client = 0
    /\ skind = "material"
    /\ pending = NoError
    /\ sretval = ""
    /\ sresult = SNoOutcome
    /\ cycles = 0
    /\ mpc = "idle"
    /\ mkind = "material"
    /\ mk = 1
    /\ mvals = <<>>
    /\ mresult = MNoOutcome
    /\ readLog = <<>>
    /\ calls = 0

StorageIdle ==
    /\ dpc = "idle"
    /\ product = ""
    /\ conn = 0
    /\ cursor = 0
    /\ openConns = {}
    /\ openCursors = {}
    /\ rows = <<>>
    /\ retval = [t |-> "NoneType", s |-> ""]
    /\ dresult = [t |-> "NoneType", s |-> ""]
    /\ dfail = "none"
    /\ dcalls = 0
    /\ report = ""

DecodeIdle ==
    /\ codeA = 0
    /\ codeB = 0
    /\ outA = ""
    /\ outB = ""
    /\ decoded = FALSE

RenderIdle ==
    /\ machine_states = <<>>
    /\ icons = <<>>
    /\ rendered = FALSE

Init ==
    /\ TelemetryIdle
    /\ spc = "idle"
    /\ StorageIdle
    /\ DecodeIdle
    /\ RenderIdle

Next ==
    \/ \E kind \in {"material", "machine"} :
          SA_Call(kind) /\ UNCHANGED <<dvars, cvars, rvars>>
    \/ \E ok \in BOOLEAN : SA_Connect(ok) /\ UNCHANGED <<dvars, cvars, rvars>>
    \/ \E kind \in {"material", "machine"} :
          MethodStart(kind) /\ UNCHANGED <<dvars, cvars, rvars>>
    \/ \E ok \in BOOLEAN : \E v \in RawValues(mkind) :
          MethodRead(ok, v) /\ UNCHANGED <<dvars, cvars, rvars>>
    \/ MethodBuild /\ UNCHANGED <<dvars, cvars, rvars>>
    \/ SA_Return /\ UNCHANGED <<dvars, cvars, rvars>>
    \/ \E ok \in BOOLEAN : SA_Finally(ok) /\ UNCHANGED <<dvars, cvars, rvars>>

Spec == Init /\ [][Next]_vars

(* ------------------- direct use of OPCUABatchPlantClient -------------- *)

\* the endpoints a caller may pass: none, or the docstring's example
UrlArgs == {None, "opc.tcp://localhost:4840"}

\* OPCUABatchPlantClient(server_url=u)
DirectNew(u) ==
    /\ spc = "direct"
    /\ mpc = "idle"
    /\ calls < MaxCalls
    /\ calls' = calls + 1
    /\ Construct(u)
    /\ UNCHANGED <<sessions, spc, skind, pending, sretval, sresult, cycles,
                   mpc, mkind, mk, mvals, mresult, readLog>>

\* await client.connect()
DirectConnect(ok) ==
    /\ spc = "direct"
    /\ mpc = "idle"
    /\ server_url # None
    /\ calls < MaxCalls
    /\ calls' = calls + 1
    /\ Connect(ok)
    /\ UNCHANGED <<server_url, urlArg, spc, skind, pending, sretval, sresult,
                   cycles, mpc, mkind, mk, mvals, mresult, readLog>>

\* await client.disconnect()
DirectDisconnect(ok) ==
    /\ spc = "direct"
    /\ mpc = "idle"
    /\ server_url # None
    /\ calls < MaxCalls
    /\ calls' = calls + 1
    /\ ~ClientGuard(client) => ok
    /\ Disconnect
    /\ UNCHANGED <<server_url, urlArg, client, spc, skind, pending, sretval,
                   sresult, cycles, mpc, mkind, mk, mvals, mresult, readLog>>

\* the method's outcome reaches the caller
DirectReturn ==
    /\ spc = "direct"
    /\ mpc = "done"
    /\ mpc' = "idle"
    /\ UNCHANGED <<sessions, server_url, urlArg, client, spc, skind, pending,
                   sretval, sresult, cycles, mkind, mk, mvals, mresult,
                   readLog, calls>>

InitClient ==
    /\ TelemetryIdle
    /\ spc = "direct"
    /\ StorageIdle
    /\ DecodeIdle
    /\ RenderIdle

NextClient ==
    \/ \E u \in UrlArgs : DirectNew(u) /\ UNCHANGED <<dvars, cvars, rvars>>
    \/ \E ok \in BOOLEAN : DirectConnect(ok) /\ UNCHANGED <<dvars, cvars, rvars>>
    \/ \E ok \in BOOLEAN : DirectDisconnect(ok) /\ UNCHANGED <<dvars, cvars, rvars>>
    \/ \E kind \in {"material", "machine"} :
          MethodStart(kind) /\ UNCHANGED <<dvars, cvars, rvars>>
    \/ \E ok \in BOOLEAN : \E v \in RawValues(mkind) :
          MethodRead(ok, v) /\ UNCHANGED <<dvars, cvars, rvars>>
    \/ MethodBuild /\ UNCHANGED <<dvars, cvars, rvars>>
    \/ DirectReturn /\ UNCHANGED <<dvars, cvars, rvars>>

SpecClient == InitClient /\ [][NextClient]_vars

(* ------------------------- telemetry: the claims ---------------------- *)

SessionIds == 1 .. Len(sessions)

\* C1: after every standalone query cycle, however it ended (connect failed,
\* a read failed, float() failed, or a JSON string was returned), every
\* underlying session has received as many disconnect() calls as connect()
\* calls, none is left open, and the call has returned or raised.
C1_OpensEqualCloses ==
    spc = "done" =>
        /\ sresult.kind \in {"value", "error"}
        /\ \A i \in SessionIds :
              /\ sessions[i].connects = sessions[i].disconnects
              /\ sessions[i].state # "open"

\* a cycle whose second read failed has ended with one connect and one disconnect
C1_Witness ==
    /\ spc = "done"
    /\ sresult = SRaised(Err("ReadError", NodeIds(skind)[2]))
    /\ sessions[client].opened
    /\ sessions[client].connects = 1
    /\ sessions[client].disconnects = 1

FailedReads == {i \in 1 .. Len(readLog) : ~readLog[i].ok}

\* C5: once a read of a query cycle has failed, it is the last read issued:
\* the identifiers before it were each read once, in order, nothing is read
\* after it or twice, the session was connected once, and the method raises
\* that read's error instead of returning a result; the standalone function
\* returns no value either.
C5_ReadFailureFailsFast ==
    FailedReads # {} =>
        LET k == Len(readLog) IN
        /\ FailedReads = {k}
        /\ k <= 3
        /\ \A i \in 1 .. k :
              /\ readLog[i].node = NodeIds(mkind)[i]
              /\ readLog[i].session = client
        /\ sessions[client].connects = 1
        /\ mpc \in {"done", "idle"}
        /\ Len(mvals) = k - 1
        /\ mresult = MRaised(Err("ReadError", NodeIds(mkind)[k]))
        /\ sretval = ""
        /\ spc = "done" => sresult.kind = "error"

\* the third read of a method failed after two values were read
C5_Witness ==
    /\ Len(readLog) = 3
    /\ readLog[1].ok /\ readLog[2].ok /\ ~readLog[3].ok
    /\ mresult.kind = "error"
    /\ spc = "done"

OpenSessions == {i \in SessionIds : sessions[i].state = "open"}

\* C9: a session belongs to one query cycle: each cycle creates its own
\* session, connects it at most once, every read goes to the current cycle's
\* session while it is open, no session is touched outside the cycle that
\* created it, at most one session is open at any time and none between cycles.
C9_SessionPerCycle ==
    /\ Cardinality(OpenSessions) <= 1
    /\ spc \in {"idle", "done"} => OpenSessions = {}
    /\ \A i \in SessionIds :
          /\ sessions[i].usedIn \subseteq {sessions[i].cycle}
          /\ sessions[i].connects <= 1
          /\ sessions[i].state = "open" => sessions[i].cycle = cycles
          /\ \A j \in SessionIds : i # j => sessions[i].cycle # sessions[j].cycle
    /\ \A r \in 1 .. Len(readLog) :
          /\ readLog[r].open
          /\ readLog[r].session = Len(sessions)
          /\ sessions[readLog[r].session].cycle = cycles

\* the second cycle reads on its own open session, the first cycle's is closed
C9_Witness ==
    /\ cycles = 2
    /\ Len(sessions) = 2
    /\ sessions[1].opened /\ sessions[1].state = "closed"
    /\ sessions[2].state = "open"
    /\ Len(readLog) >= 1

\* C7: closing is idempotent: no underlying session is torn down twice.
C7_CloseIdempotent ==
    \A i \in SessionIds : sessions[i].disconnects <= 1

\* C10: every session is opened to the server_url its client was constructed
\* with, and to the default endpoint only when none was supplied.
C10_EndpointFromArgument ==
    \A i \in SessionIds :
        sessions[i].url = IF sessions[i].argUrl = None THEN SERVER_URL
                          ELSE sessions[i].argUrl

(* ------------------------ batch_plant_storage.py ---------------------- *)

\* Python values get_product_details returns: None, or a str
PyNone == [t |-> "NoneType", s |-> ""]
PyStr(s) == [t |-> "str", s |-> s]

Products == {"Product A", "Product Z"}

\* rm.name of the raw material kept in each tank
MaterialOfTank == <<"Water", "Acid", "Base">>

\* pr.quantity as the cursor yields it: a number, or NULL (None)
Quantities == {NumRaw(10), [t |-> "null", v |-> 0]}

\* the rows the query may yield: ORDER BY rm.tank_number, at most MaxRows
RowsOver(tanks) ==
    {r \in [1 .. Len(tanks) -> [material_name : {"Water", "Acid", "Base"},
                               tank_number : 1 .. 3,
                               quantity : Quantities]] :
        \A i \in 1 .. Len(tanks) :
            /\ r[i].tank_number = tanks[i]
            /\ r[i].material_name = MaterialOfTank[tanks[i]]}

TankLists ==
    {t \in UNION {[1 .. n -> 1 .. 3] : n \in 0 .. MaxRows} :
        \A i \in 1 .. Len(t) : \A j \in 1 .. Len(t) : i < j => t[i] < t[j]}

RowSets == UNION {RowsOver(t) : t \in TankLists}

\* float(row['quantity']) raises for NULL
RowsConvertible(rs) == \A i \in 1 .. Len(rs) : FloatOk(rs[i].quantity)

RECURSIVE DumpRows(_)
DumpRows(rs) ==
    IF Len(rs) = 0 THEN ""
    ELSE "\n    {"
         \o "\n      \"material_name\": " \o DumpStr(rs[1].material_name) \o ","
         \o "\n      \"tank_number\": " \o FormatInt(rs[1].tank_number) \o ","
         \o "\n      \"quantity\": " \o DumpFloat(rs[1].quantity)
         \o "\n    }" \o (IF Len(rs) = 1 THEN "\n  " ELSE ",") \o DumpRows(Tail(rs))

\* json.dumps({"product_name": p, "recipe": recipe_details}, indent=2)
DumpProduct(p, rs) ==
    "{\n  \"product_name\": " \o DumpStr(p) \o ",\n  \"recipe\": ["
    \o DumpRows(rs) \o "]\n}"

\* json.loads(text)['recipe']: the recipe whose dump the text is
LoadRecipe(text) ==
    CHOOSE rs \in {r \in RowSets : RowsConvertible(r)} :
        \E p \in Products : DumpProduct(p, rs) = text

\* a plausible slip: a query without rows is reported as a failure
BuildReturnNoneIfEmpty(p, rs) ==
    IF rs = <<>> THEN PyNone ELSE PyStr(DumpProduct(p, rs))

\* recipe_details built row by row, then return json.dumps(result, indent=2)
BuildReturn(p, rs) == PyStr(DumpProduct(p, rs))

\* a plausible slip: an error is answered with an empty recipe
ExceptReturnEmptyRecipe(p) == PyStr(DumpProduct(p, <<>>))

\* except psycopg2.Error / except Exception: print(...); return None
ExceptReturn(p) == PyNone

\* a plausible slip: conn.close() nested under "if cursor"
FinallyReleaseNested ==
    /\ openCursors' = IF cursor # 0 THEN openCursors \ {cursor} ELSE openCursors
    /\ openConns' = IF cursor # 0 /\ conn # 0 THEN openConns \ {conn} ELSE openConns

\* finally: if cursor: cursor.close(); if conn: conn.close()
FinallyRelease ==
    /\ openCursors' = IF cursor # 0 THEN openCursors \ {cursor} ELSE openCursors
    /\ openConns' = IF conn # 0 THEN openConns \ {conn} ELSE openConns

\* get_product_details(product_name): conn = None; cursor = None
DB_Call(p) ==
    /\ dpc \in {"idle", "reported"}
    /\ dcalls < MaxDbCalls
    /\ dcalls' = dcalls + 1
    /\ product' = p
    /\ conn' = 0
    /\ cursor' = 0
    /\ rows' = <<>>
    /\ retval' = PyNone
    /\ dresult' = PyNone
    /\ dfail' = "none"
    /\ report' = ""
    /\ dpc' = "connect"
    /\ UNCHANGED <<openConns, openCursors>>

\* conn = get_db_connection(): psycopg2.connect, re-raised on psycopg2.Error
DB_GetConnection(ok) ==
    /\ dpc = "connect"
    /\ IF ok
       THEN /\ conn' = dcalls
            /\ openConns' = openConns \cup {dcalls}
            /\ dpc' = "cursor"
            /\ UNCHANGED <<retval, dfail>>
       ELSE /\ retval' = ExceptReturn(product)
            /\ dfail' = "connect"
            /\ dpc' = "finally"
            /\ UNCHANGED <<conn, openConns>>
    /\ UNCHANGED <<product, cursor, openCursors, rows, dresult, dcalls, report>>

\* cursor = conn.cursor(cursor_factory=RealDictCursor)
DB_Cursor(ok) ==
    /\ dpc = "cursor"
    /\ IF ok
       THEN /\ cursor' = dcalls
            /\ openCursors' = openCursors \cup {dcalls}
            /\ dpc' = "execute"
            /\ UNCHANGED <<retval, dfail>>
       ELSE /\ retval' = ExceptReturn(product)
            /\ dfail' = "cursor"
            /\ dpc' = "finally"
            /\ UNCHANGED <<cursor, openCursors>>
    /\ UNCHANGED <<product, conn, openConns, rows, dresult, dcalls, report>>

\* cursor.execute(query, (product_name,)); results = cursor.fetchall()
DB_Execute(ok, rs) ==
    /\ dpc = "execute"
    /\ rs \in RowSets
    /\ ~ok => rs = <<>>
    /\ IF ok
       THEN /\ rows' = rs
            /\ dpc' = "convert"
            /\ UNCHANGED <<retval, dfail>>
       ELSE /\ retval' = ExceptReturn(product)
            /\ dfail' = "query"
            /\ dpc' = "finally"
            /\ UNCHANGED rows
    /\ UNCHANGED <<product, conn, cursor, openConns, openCursors, dresult,
                   dcalls, report>>

\* the conversion loop and the return of the JSON string
DB_Convert ==
    /\ dpc = "convert"
    /\ dpc' = "finally"
    /\ IF RowsConvertible(rows)
       THEN retval' = BuildReturn(product, rows) /\ dfail' = dfail
       ELSE retval' = ExceptReturn(product) /\ dfail' = "convert"
    /\ UNCHANGED <<product, conn, cursor, openConns, openCursors, rows,
                   dresult, dcalls, report>>

\* the finally block, then the value reaches the caller
DB_Finally ==
    /\ dpc = "finally"
    /\ FinallyRelease
    /\ dresult' = retval
    /\ dpc' = "done"
    /\ UNCHANGED <<product, conn, cursor, rows, retval, dfail, dcalls, report>>

\* print_recipe_details(product_name, recipe_details)
print_recipe_details(recipe_details) ==
    IF recipe_details = <<>> THEN "No recipe found for product"
    ELSE "Recipe for"

\* __main__: recipe_json is not None -> json.loads, print_recipe_details
MainReport(recipe_json) ==
    IF recipe_json.t # "NoneType"
    THEN print_recipe_details(LoadRecipe(recipe_json.s))
    ELSE "Failed to retrieve product details."

DB_Report ==
    /\ dpc = "done"
    /\ report' = MainReport(dresult)
    /\ dpc' = "reported"
    /\ UNCHANGED <<product, conn, cursor, openConns, openCursors, rows,
                   retval, dresult, dfail, dcalls>>

InitStorage ==
    /\ TelemetryIdle
    /\ spc = "idle"
    /\ StorageIdle
    /\ DecodeIdle
    /\ RenderIdle

NextStorage ==
    \/ \E p \in Products : DB_Call(p) /\ UNCHANGED <<tvars, cvars, rvars>>
    \/ \E ok \in BOOLEAN : DB_GetConnection(ok) /\ UNCHANGED <<tvars, cvars, rvars>>
    \/ \E ok \in BOOLEAN : DB_Cursor(ok) /\ UNCHANGED <<tvars, cvars, rvars>>
    \/ \E ok \in BOOLEAN : \E rs \in RowSets :
          DB_Execute(ok, rs) /\ UNCHANGED <<tvars, cvars, rvars>>
    \/ DB_Convert /\ UNCHANGED <<tvars, cvars, rvars>>
    \/ DB_Finally /\ UNCHANGED <<tvars, cvars, rvars>>
    \/ DB_Report /\ UNCHANGED <<tvars, cvars, rvars>>

SpecStorage == InitStorage /\ [][NextStorage]_vars

(* -------------------------- storage: the claims ----------------------- *)

Returned == dpc \in {"done", "reported"}

C3_EmptyRecipeIsNotFailure ==
    Returned =>
        /\ dfail = "none" /\ rows = <<>> =>
              /\ dresult = PyStr(DumpProduct(product, <<>>))
              /\ LoadRecipe(dresult.s) = <<>>
        /\ dfail # "none" <=> dresult = PyNone
        /\ dresult.t = "str" /\ LoadRecipe(dresult.s) = <<>> =>
              dfail = "none" /\ rows = <<>>
        /\ dpc = "reported" =>
              /\ report = "No recipe found for product" <=>
                    dfail = "none" /\ rows = <<>>
              /\ report = "Failed to retrieve product details." <=>
                    dfail # "none"

\* a query without rows was reported as "no recipe", not as a failure
C3_Witness ==
    /\ dpc = "reported"
    /\ dfail = "none"
    /\ rows = <<>>
    /\ dresult.t = "str"
    /\ report = "No recipe found for product"

\* C6: when get_product_details has returned, no connection and no cursor it
\* acquired is open, whichever step failed.
C6_ConnectionScopedToCall ==
    Returned \/ dpc = "idle" => openConns = {} /\ openCursors = {}

\* the cursor could not be created: the connection acquired before is closed
C6_Witness ==
    /\ dpc = "done"
    /\ dfail = "cursor"
    /\ conn # 0
    /\ cursor = 0
    /\ openConns = {}

(* ---------------------- _int_to_state_string -------------------------- *)

Codes == (0 - MaxCode) .. MaxCode

\* self._int_to_state_string applied to two raw codes
Decode ==
    /\ ~decoded
    /\ outA' = int_to_state_string(codeA)
    /\ outB' = int_to_state_string(codeB)
    /\ decoded' = TRUE
    /\ UNCHANGED <<codeA, codeB>>

InitDecode ==
    /\ TelemetryIdle
    /\ spc = "idle"
    /\ StorageIdle
    /\ RenderIdle
    /\ codeA \in Codes
    /\ codeB \in Codes
    /\ outA = ""
    /\ outB = ""
    /\ decoded = FALSE

NextDecode == Decode /\ UNCHANGED <<tvars, dvars, rvars>>

SpecDecode == InitDecode /\ [][NextDecode]_vars

\* the state each known code names, lower-cased as the code returns it
NamedState ==
    <<"disabled", "idle", "running", "starved", "blocked",
      "planned_downtime", "unplanned_downtime", "other">>

\* C4: decoding is total: codes 0..7 give the eight named states, every
\* other integer gives the unknown variant carrying that code in decimal,
\* and two different codes never give the same result.
C4_DecodeTotal ==
    decoded =>
        /\ codeA \in 0 .. 7 => outA = NamedState[codeA + 1]
        /\ codeA \notin 0 .. 7 => outA = "unknown_state_" \o ToString(codeA)
        /\ codeA # codeB => outA # outB

\* a negative code and a code just above the known range were decoded
C4_Witness ==
    /\ decoded
    /\ codeA = 0 - 1
    /\ codeB = 8
    /\ outA = "unknown_state_-1"
    /\ outB = "unknown_state_8"

(* ------------------- main.py: machine state rendering ----------------- *)

\* what the decoder can put into machine_states
DecodedStates == {int_to_state_string(c) : c \in (0 - 1) .. 8}

\* the states the response may carry
RenderStates == DecodedStates \cup {"fault", "error"}

\* status_icon = green if state not in ["fault", "error"] else red
status_icon(state) == IF state \notin {"fault", "error"} THEN "green" ELSE "red"

\* for machine, state in structured_response.machine_states.items()
Render ==
    /\ ~rendered
    /\ icons' = [i \in 1 .. 3 |-> status_icon(machine_states[i])]
    /\ rendered' = TRUE
    /\ UNCHANGED machine_states

InitRender ==
    /\ TelemetryIdle
    /\ spc = "idle"
    /\ StorageIdle
    /\ DecodeIdle
    /\ machine_states \in [1 .. 3 -> RenderStates]
    /\ icons = <<>>
    /\ rendered = FALSE

NextRender == Render /\ UNCHANGED <<tvars, dvars, cvars>>

SpecRender == InitRender /\ [][NextRender]_vars

OperationalStates == {"running", "idle", "starved", "blocked"}

\* C8: a machine is shown operational exactly when its state is RUNNING,
\* IDLE, STARVED or BLOCKED, and all machines are shown operational only
\* when every one of them is in such a state.
C8_OperationalClassification ==
    rendered /\ (\A i \in 1 .. 3 : machine_states[i] \in DecodedStates) =>
        /\ \A i \in 1 .. 3 :
              icons[i] = "green" <=> machine_states[i] \in OperationalStates
        /\ (\A i \in 1 .. 3 : icons[i] = "green") <=>
              (\A i \in 1 .. 3 : machine_states[i] \in OperationalStates)

=============================================================================
